---------------------------- MODULE Spec2Model ----------------------------
(***************************************************************************)
(* Model of the joint char/phoneme tokenization tool of espnet2:           *)
(*   espnet2/bin/char_phoneme_tokenize_text.py  (field2slice, tokenize)    *)
(*   espnet2/text/char_phoneme_tokenizer.py     (CharPhonemeTokenizer)     *)
(*   espnet2/text/cp_build_tokenizer.py         (build_tokenizer)          *)
(*   egs2/TEMPLATE/asr1/pyscripts/text/add_phoneme.py                      *)
(*                                                                         *)
(* A Python str is a sequence of atoms.  An atom is one character, or a    *)
(* symbol name such as "<blank>" that holds no separator, digit or blank   *)
(* and is therefore never cut by any split of the program.  Optional[int]  *)
(* is <<>> for None and <<n>> for the integer n.                           *)
(***************************************************************************)
EXTENDS Integers, Sequences, FiniteSets, TLC

VARIABLES
    f_pc, f_field, f_slic, f_sel,                  \* field2slice on its own
    s_pc, s_line, s_delim, s_field, s_slic, s_tokens, s_joined, s_resplit,
                                                   \* column stripping of one line
    t_pc, t_cfg, t_tok, t_line, t_out,             \* CharPhonemeTokenizer
    pc, args, fin, slic, tokenizer, nread,         \* tokenize(): the run
    c_counter, p_counter, c_fout, p_fout,
    c_words_and_counts, p_words_and_counts, inj, err

fvars == <<f_pc, f_field, f_slic, f_sel>>
svars == <<s_pc, s_line, s_delim, s_field, s_slic, s_tokens, s_joined, s_resplit>>
tvars == <<t_pc, t_cfg, t_tok, t_line, t_out>>
rvars == <<pc, args, fin, slic, tokenizer, nread, c_counter, p_counter, c_fout,
           p_fout, c_words_and_counts, p_words_and_counts, inj, err>>
vars == <<fvars, svars, tvars, rvars>>

-----------------------------------------------------------------------------
(* Bounds of the model *)

\* longest field string given to field2slice on its own
MaxFieldLen == 4
\* longest line given to the tokenizer on its own
MaxTokLineLen == 3
\* longest line given to the column stripping on its own
MaxStripLineLen == 4
\* most lines of one run of tokenize()
MaxLines == 2

-----------------------------------------------------------------------------
(* Python values *)

None == <<>>
Some(n) == <<n>>

\* sequences over S of length 0..n
SeqUpTo(S, n) == UNION {[1..k -> S] : k \in 0..n}

IsSpace(ch) == ch = " "

Digits == {"0", "1", "2", "3", "4", "5", "6", "7", "8", "9"}

DigitVal(ch) ==
    CASE ch = "0" -> 0 [] ch = "1" -> 1 [] ch = "2" -> 2 [] ch = "3" -> 3
      [] ch = "4" -> 4 [] ch = "5" -> 5 [] ch = "6" -> 6 [] ch = "7" -> 7
      [] ch = "8" -> 8 [] ch = "9" -> 9

Drop(s, n) == SubSeq(s, n + 1, Len(s))
Take(s, n) == SubSeq(s, 1, n)

\* str.startswith
StartsWith(s, w) == Len(w) <= Len(s) /\ Take(s, Len(w)) = w

RECURSIVE LStrip(_)
LStrip(s) == IF s # <<>> /\ IsSpace(Head(s)) THEN LStrip(Tail(s)) ELSE s

RECURSIVE RStrip(_)
RStrip(s) ==
    IF s # <<>> /\ IsSpace(s[Len(s)]) THEN RStrip(Take(s, Len(s) - 1)) ELSE s

\* str.strip()
Strip(s) == RStrip(LStrip(s))

\* 0-based index of the first occurrence of sep in s, or -1 (str.find)
RECURSIVE FindFrom(_, _, _)
FindFrom(s, sep, i) ==
    IF i + Len(sep) > Len(s) THEN -1
    ELSE IF SubSeq(s, i + 1, i + Len(sep)) = sep THEN i
    ELSE FindFrom(s, sep, i + 1)

Find(s, sep) == FindFrom(s, sep, 0)

\* sub in s
Contains(s, sub) == Find(s, sub) >= 0

\* str.split(sep) with a non-empty separator: leftmost, non-overlapping
RECURSIVE SplitSep(_, _)
SplitSep(s, sep) ==
    LET i == Find(s, sep)
    IN  IF i < 0 THEN <<s>>
        ELSE <<Take(s, i)>> \o SplitSep(Drop(s, i + Len(sep)), sep)

\* str.split(sep, maxsplit=1)
SplitSepOnce(s, sep) ==
    LET i == Find(s, sep)
    IN  IF i < 0 THEN <<s>> ELSE <<Take(s, i), Drop(s, i + Len(sep))>>

\* str.split() / str.split(None): runs of blanks separate, no empty field
RECURSIVE SplitWs(_)
SplitWs(s) ==
    LET t == LStrip(s)
        RECURSIVE WordLen(_)
        WordLen(u) == IF u = <<>> \/ IsSpace(Head(u)) THEN 0 ELSE 1 + WordLen(Tail(u))
    IN  IF t = <<>> THEN <<>>
        ELSE <<Take(t, WordLen(t))>> \o SplitWs(Drop(t, WordLen(t)))

\* str.split(delimiter), delimiter None or a string
PySplit(s, delimiter) ==
    IF delimiter = None THEN SplitWs(s) ELSE SplitSep(s, delimiter[1])

\* sep.join(fields)
RECURSIVE Join(_, _)
Join(fields, sep) ==
    IF fields = <<>> THEN <<>>
    ELSE IF Len(fields) = 1 THEN fields[1]
    ELSE fields[1] \o sep \o Join(Tail(fields), sep)

RECURSIVE DigitsVal(_, _)
DigitsVal(s, acc) ==
    IF s = <<>> THEN acc ELSE DigitsVal(Tail(s), 10 * acc + DigitVal(Head(s)))

\* int(s): blanks around, an optional sign, then one or more digits.
\* <<>> stands for ValueError, <<n>> for the value.
ParseInt(s) ==
    LET t == Strip(s)
        neg == t # <<>> /\ Head(t) = "-"
        pos == t # <<>> /\ Head(t) = "+"
        d == IF neg \/ pos THEN Tail(t) ELSE t
    IN  IF d = <<>> \/ \E i \in 1..Len(d) : d[i] \notin Digits THEN <<>>
        ELSE IF neg THEN <<0 - DigitsVal(d, 0)>> ELSE <<DigitsVal(d, 0)>>

\* seq[start:stop] with Optional[int] bounds (step 1)
PySlice(seq, start, stop) ==
    LET n == Len(seq)
        Clamp(i) == IF i < 0 THEN (IF i + n < 0 THEN 0 ELSE i + n)
                    ELSE IF i > n THEN n ELSE i
        lo == IF start = None THEN 0 ELSE Clamp(start[1])
        hi == IF stop = None THEN n ELSE Clamp(stop[1])
    IN  IF lo >= hi THEN <<>> ELSE SubSeq(seq, lo + 1, hi)

\* list.insert(idx, x): the list after the call
PyInsert(list, idx, x) ==
    LET n == Len(list)
        i == IF idx < 0 THEN (IF idx + n < 0 THEN 0 ELSE idx + n)
             ELSE IF idx > n THEN n ELSE idx
    IN  Take(list, i) \o <<x>> \o Drop(list, i)

-----------------------------------------------------------------------------
(* field2slice *)

FormatError == [ok |-> FALSE, start |-> None, stop |-> None]
Slice(a, b) == [ok |-> TRUE, start |-> a, stop |-> b]

\* no tokenizer: build_tokenizer raised
NoTokenizer == [ok |-> FALSE, tok |-> <<>>]

\* no tokens: text2tokens raised
NoTokens == [ok |-> FALSE, char |-> <<>>, phone |-> <<>>]

\* the branch taken when the field holds a "-"
Field2SliceDash(field) ==
    LET parts == SplitSepOnce(field, <<"-">>)
        e1 == Strip(parts[1]) = <<>>
        e2 == Strip(parts[2]) = <<>>
        s1 == IF e1 THEN None ELSE ParseInt(parts[1])
        s2 == IF e2 THEN None ELSE ParseInt(parts[2])
    IN  IF ~e1 /\ s1 = <<>> THEN FormatError
        ELSE IF ~e1 /\ s1[1] = 0 THEN FormatError
        ELSE IF ~e2 /\ s2 = <<>> THEN FormatError
        ELSE IF e1 THEN Slice(None, s2)
        ELSE Slice(Some(s1[1] - 1), s2)

\* the branch taken when the field holds no "-"
Field2SliceSingle(field) ==
    LET s1 == ParseInt(field)
    IN  IF s1 = <<>> THEN FormatError
        ELSE IF s1[1] = 0 THEN FormatError
        ELSE Slice(Some(s1[1] - 1), Some(s1[1] + 1))

field2slice(field0) ==
    LET field == Strip(field0)
    IN  IF Contains(field, <<"-">>) THEN Field2SliceDash(field)
        ELSE Field2SliceSingle(field)


-----------------------------------------------------------------------------
(* field2slice on its own: one call, then the slice applied to a row of    *)
(* columns                                                                 *)

FieldAlphabet == {"0", "1", "2", "-", "a", " "}

Columns == <<"c1", "c2", "c3", "c4">>

FInit ==
    /\ f_pc = "start"
    /\ f_field \in SeqUpTo(FieldAlphabet, MaxFieldLen)
    /\ f_slic = FormatError
    /\ f_sel = <<>>
    \* the rest of the model is left alone
    /\ s_pc = "idle" /\ s_line = <<>> /\ s_delim = None
    /\ s_field = <<>> /\ s_slic = FormatError /\ s_tokens = <<>>
    /\ s_joined = <<>> /\ s_resplit = <<>>
    /\ t_pc = "idle" /\ t_cfg = <<>> /\ t_tok = NoTokenizer
    /\ t_line = <<>> /\ t_out = NoTokens
    /\ pc = "idle" /\ args = <<>> /\ fin = <<>>
    /\ slic = None /\ tokenizer = NoTokenizer /\ nread = 0
    /\ c_counter = <<>> /\ p_counter = <<>> /\ c_fout = <<>>
    /\ p_fout = <<>> /\ c_words_and_counts = <<>> /\ p_words_and_counts = <<>>
    /\ inj = 0 /\ err = ""

\* field = field2slice(field), or the RuntimeError it raises
FParse ==
    /\ f_pc = "start"
    /\ f_slic' = field2slice(f_field)
    /\ f_pc' = IF f_slic'.ok THEN "parsed" ELSE "error"
    /\ UNCHANGED <<f_field, f_sel>>
    /\ UNCHANGED <<svars, tvars, rvars>>

\* tokens = tokens[field]
FApply ==
    /\ f_pc = "parsed"
    /\ f_sel' = PySlice(Columns, f_slic.start, f_slic.stop)
    /\ f_pc' = "sliced"
    /\ UNCHANGED <<f_field, f_slic>>
    /\ UNCHANGED <<svars, tvars, rvars>>

-----------------------------------------------------------------------------
(* Column stripping of one line: split, slice, rejoin (and the split of    *)
(* the rejoined line again)                                                *)

StripAlphabet == {"a", "b", " ", ","}

\* --delimiter: None, or a string (the empty string included)
Delimiters == {None, <<<<" ">>>>, <<<<",">>>>, <<<<",", ",">>>>, <<<<>>>>}

\* --field
StripFields ==
    { <<"1">>, <<"2">>, <<"1", "-">>, <<"2", "-">>, <<"3", "-">>, <<"-", "1">>,
      <<"-", "2">>, <<"1", "-", "2">>, <<"2", "-", "3">>, <<"2", "-", "1">>,
      <<"1", "-", "-", "1">>, <<"0">> }

\* " ".join(tokens) when the delimiter is None, delimiter.join(tokens) otherwise
RejoinAlwaysSpace(tokens, delimiter) == Join(tokens, <<" ">>)

Rejoin(tokens, delimiter) ==
    IF delimiter = None THEN Join(tokens, <<" ">>) ELSE Join(tokens, delimiter[1])

\* the fields of a line kept by the slice
StripTokens(line, delimiter, field) ==
    PySlice(PySplit(RStrip(line), delimiter), field.start, field.stop)

\* line.rstrip(), split, slice and rejoin: the line handed to the tokenizer
StripColumns(line, delimiter, field) ==
    Rejoin(StripTokens(line, delimiter, field), delimiter)

SInit ==
    /\ s_pc = "start"
    /\ s_line \in SeqUpTo(StripAlphabet, MaxStripLineLen)
    /\ s_delim \in Delimiters
    /\ s_field \in StripFields
    /\ s_slic = FormatError
    /\ s_tokens = <<>> /\ s_joined = <<>> /\ s_resplit = <<>>
    \* the rest of the model is left alone
    /\ f_pc = "idle" /\ f_field = <<>> /\ f_slic = FormatError
    /\ f_sel = <<>>
    /\ t_pc = "idle" /\ t_cfg = <<>> /\ t_tok = NoTokenizer
    /\ t_line = <<>> /\ t_out = NoTokens
    /\ pc = "idle" /\ args = <<>> /\ fin = <<>>
    /\ slic = None /\ tokenizer = NoTokenizer /\ nread = 0
    /\ c_counter = <<>> /\ p_counter = <<>> /\ c_fout = <<>>
    /\ p_fout = <<>> /\ c_words_and_counts = <<>> /\ p_words_and_counts = <<>>
    /\ inj = 0 /\ err = ""

SParse ==
    /\ s_pc = "start"
    /\ s_slic' = field2slice(s_field)
    /\ s_pc' = IF s_slic'.ok THEN "parsed" ELSE "error"
    /\ UNCHANGED <<s_line, s_delim, s_field, s_tokens, s_joined, s_resplit>>
    /\ UNCHANGED <<fvars, tvars, rvars>>

\* one pass of the loop body; str.split("") raises ValueError
SStrip ==
    /\ s_pc = "parsed"
    /\ IF s_delim = <<<<>>>>
       THEN s_pc' = "error" /\ UNCHANGED <<s_tokens, s_joined>>
       ELSE /\ s_tokens' = StripTokens(s_line, s_delim, s_slic)
            /\ s_joined' = StripColumns(s_line, s_delim, s_slic)
            /\ s_pc' = "joined"
    /\ UNCHANGED <<s_line, s_delim, s_field, s_slic, s_resplit>>
    /\ UNCHANGED <<fvars, tvars, rvars>>

\* the rejoined line split again with the same delimiter
SResplit ==
    /\ s_pc = "joined"
    /\ s_resplit' = PySplit(s_joined, s_delim)
    /\ s_pc' = "resplit"
    /\ UNCHANGED <<s_line, s_delim, s_field, s_slic, s_tokens, s_joined>>
    /\ UNCHANGED <<fvars, tvars, rvars>>

-----------------------------------------------------------------------------
(* The tokenizers.  A token is a str; text2tokens returns a list of them.  *)

\* the first symbol of the list that the line starts with, as <<w>>, or <<>>
RECURSIVE FirstPrefix(_, _)
FirstPrefix(symbols, line) ==
    IF symbols = <<>> THEN <<>>
    ELSE IF Head(symbols) # <<>> /\ StartsWith(line, Head(symbols)) THEN <<Head(symbols)>>
    ELSE FirstPrefix(Tail(symbols), line)

\* CharTokenizer.text2tokens: at each position a non-linguistic symbol (kept
\* whole, or dropped when remove_non_linguistic_symbols), else a nonsplit
\* symbol (kept whole), else one character, a blank becoming space_symbol
RECURSIVE CharText2Tokens(_, _)
CharText2Tokens(tk, line) ==
    LET nls == FirstPrefix(tk.non_linguistic_symbols, line)
        nsp == FirstPrefix(tk.nonsplit_symbols, line)
    IN  IF line = <<>> THEN <<>>
        ELSE IF nls # <<>>
        THEN (IF tk.remove_non_linguistic_symbols THEN <<>> ELSE <<nls[1]>>)
             \o CharText2Tokens(tk, Drop(line, Len(nls[1])))
        ELSE IF nsp # <<>>
        THEN <<nsp[1]>> \o CharText2Tokens(tk, Drop(line, Len(nsp[1])))
        ELSE <<(IF IsSpace(Head(line)) THEN <<tk.space_symbol>> ELSE <<Head(line)>>)>>
             \o CharText2Tokens(tk, Tail(line))

\* the external grapheme-to-phoneme function: a letter gives its phoneme,
\* anything else gives none; the phonemes are joined by blanks
Phoneme(ch) == CASE ch = "a" -> <<"A">> [] ch = "b" -> <<"B">> [] OTHER -> <<>>

RECURSIVE G2PList(_)
G2PList(text) ==
    IF text = <<>> THEN <<>>
    ELSE (IF Phoneme(Head(text)) = <<>> THEN <<>> ELSE <<Phoneme(Head(text))>>)
         \o G2PList(Tail(text))

grapheme_to_phoneme(text) == Join(G2PList(text), <<" ">>)

\* PhonemeTokenizer.text2tokens: the line split at blanks when g2p_type is
\* None, the G2P result split at blanks otherwise
PhonemeText2Tokens(tk, line) ==
    IF tk.g2p_type = None THEN SplitWs(line) ELSE SplitWs(grapheme_to_phoneme(line))

\* text2tokens of either tokenizer object
Text2TokensOf(tk, line) ==
    IF tk.kind = "CharTokenizer" THEN CharText2Tokens(tk, line)
    ELSE PhonemeText2Tokens(tk, line)

CharTokenizer(non_linguistic_symbols, space_symbol, remove_nls, nonsplit_symbols) ==
    [kind |-> "CharTokenizer", g2p_type |-> None,
     non_linguistic_symbols |-> non_linguistic_symbols,
     space_symbol |-> space_symbol,
     remove_non_linguistic_symbols |-> remove_nls,
     nonsplit_symbols |-> nonsplit_symbols]

PhonemeTokenizer(g2p_type, non_linguistic_symbols, space_symbol, remove_nls) ==
    [kind |-> "PhonemeTokenizer", g2p_type |-> g2p_type,
     non_linguistic_symbols |-> non_linguistic_symbols,
     space_symbol |-> space_symbol,
     remove_non_linguistic_symbols |-> remove_nls,
     nonsplit_symbols |-> <<>>]

\* CharPhonemeTokenizer.__init__
CharPhonemeTokenizerInit(c) ==
    [space_symbol |-> c.space_symbol,
     g2p_type |-> c.g2p_type,
     joint_symbol |-> c.joint_symbol,
     pre_phonemize |-> c.pre_phonemize,
     char_tokenizer |->
         CharTokenizer(c.char_non_linguistic_symbols, c.space_symbol,
                       c.remove_non_linguistic_symbols, c.nonsplit_symbols),
     phone_tokenizer |->
         IF c.pre_phonemize
         THEN PhonemeTokenizer(c.g2p_type, c.phone_non_linguistic_symbols,
                               c.space_symbol, c.remove_non_linguistic_symbols)
         ELSE CharTokenizer(c.phone_non_linguistic_symbols, c.space_symbol,
                            c.remove_non_linguistic_symbols, c.nonsplit_symbols)]

\* build_tokenizer: token_type "char_phone" gives a CharPhonemeTokenizer with
\* pre_phonemize left at its default False; any other type raises ValueError
build_tokenizer(c) ==
    IF c.token_type = "char_phone"
    THEN [ok |-> TRUE, tok |-> <<CharPhonemeTokenizerInit([c EXCEPT !.pre_phonemize = FALSE])>>]
    ELSE NoTokenizer

\* CharPhonemeTokenizer.text2tokens; ok = FALSE is the ValueError of the
\* two-name unpacking of line.split("@")
text2tokens(self, line) ==
    LET parts == IF self.pre_phonemize THEN SplitSep(line, <<"@">>) ELSE <<line, line>>
    IN  IF Len(parts) # 2 THEN NoTokens
        ELSE [ok |-> TRUE,
              char |-> Text2TokensOf(self.char_tokenizer, parts[1]),
              phone |-> Text2TokensOf(self.phone_tokenizer, parts[2])]

-----------------------------------------------------------------------------
(* The tokenizer on its own: construction, then one call of text2tokens    *)

TokAlphabet == {"a", "b", " ", "@", "#"}

TokConfigs ==
    [token_type : {"char_phone", "char"},
     direct : BOOLEAN,
     pre_phonemize : BOOLEAN,
     joint_symbol : {"@", "#"},
     g2p_type : {None, <<"pyopenjtalk">>},
     space_symbol : {"<space>"},
     char_non_linguistic_symbols : {<<>>},
     phone_non_linguistic_symbols : {<<>>, << <<"a", "b">> >>},
     remove_non_linguistic_symbols : {FALSE},
     nonsplit_symbols : {<<>>}]

TInit ==
    /\ t_pc = "new"
    /\ t_cfg \in {c \in TokConfigs :
                    /\ c.direct => c.token_type = "char_phone"
                    /\ ~c.direct => ~c.pre_phonemize}
    /\ t_tok = NoTokenizer
    /\ t_line \in SeqUpTo(TokAlphabet, MaxTokLineLen)
    /\ t_out = NoTokens
    \* the rest of the model is left alone
    /\ f_pc = "idle" /\ f_field = <<>> /\ f_slic = FormatError
    /\ f_sel = <<>>
    /\ s_pc = "idle" /\ s_line = <<>> /\ s_delim = None
    /\ s_field = <<>> /\ s_slic = FormatError /\ s_tokens = <<>>
    /\ s_joined = <<>> /\ s_resplit = <<>>
    /\ pc = "idle" /\ args = <<>> /\ fin = <<>>
    /\ slic = None /\ tokenizer = NoTokenizer /\ nread = 0
    /\ c_counter = <<>> /\ p_counter = <<>> /\ c_fout = <<>>
    /\ p_fout = <<>> /\ c_words_and_counts = <<>> /\ p_words_and_counts = <<>>
    /\ inj = 0 /\ err = ""

\* CharPhonemeTokenizer(..., pre_phonemize=...) called directly
TConstruct ==
    /\ t_pc = "new" /\ t_cfg.direct
    /\ t_tok' = [ok |-> TRUE, tok |-> <<CharPhonemeTokenizerInit(t_cfg)>>]
    /\ t_pc' = "built"
    /\ UNCHANGED <<t_cfg, t_line, t_out>>
    /\ UNCHANGED <<fvars, svars, rvars>>

\* build_tokenizer(token_type=...)
TBuild ==
    /\ t_pc = "new" /\ ~t_cfg.direct
    /\ t_tok' = build_tokenizer(t_cfg)
    /\ t_pc' = IF t_tok'.ok THEN "built" ELSE "error"
    /\ UNCHANGED <<t_cfg, t_line, t_out>>
    /\ UNCHANGED <<fvars, svars, rvars>>

\* tokenizer.text2tokens(line)
TText2Tokens ==
    /\ t_pc = "built"
    /\ t_out' = text2tokens(t_tok.tok[1], t_line)
    /\ t_pc' = IF t_out'.ok THEN "done" ELSE "error"
    /\ UNCHANGED <<t_cfg, t_tok, t_line>>
    /\ UNCHANGED <<fvars, svars, rvars>>

-----------------------------------------------------------------------------
(* tokenize(): the vocabulary                                              *)

\* counter[t] += 1 on a Counter, a dict that keeps its keys in the order of
\* their first insertion
CounterAdd(counter, t) ==
    IF \E i \in 1..Len(counter) : counter[i].w = t
    THEN [i \in 1..Len(counter) |->
             IF counter[i].w = t THEN [counter[i] EXCEPT !.c = @ + 1] ELSE counter[i]]
    ELSE Append(counter, [w |-> t, c |-> 1])

\* for t in tokens: counter[t] += 1
RECURSIVE CountTokens(_, _)
CountTokens(counter, tokens) ==
    IF tokens = <<>> THEN counter
    ELSE CountTokens(CounterAdd(counter, Head(tokens)), Tail(tokens))

\* one element put into a list sorted by descending count, behind the
\* elements of the same count
RECURSIVE InsertByCount(_, _)
InsertByCount(sorted, x) ==
    IF sorted = <<>> THEN <<x>>
    ELSE IF Head(sorted).c >= x.c THEN <<Head(sorted)>> \o InsertByCount(Tail(sorted), x)
    ELSE <<x>> \o sorted

RECURSIVE SortFrom(_, _)
SortFrom(acc, items) ==
    IF items = <<>> THEN acc ELSE SortFrom(InsertByCount(acc, Head(items)), Tail(items))

\* sorted(counter.items(), key=lambda x: -x[1]): a stable sort
SortedByCount(items) == SortFrom(<<>>, items)

\* filter(lambda x: x[1] > cutoff, ...)
RECURSIVE FilterCutoffInclusive(_, _)
FilterCutoffInclusive(items, cutoff) ==
    IF items = <<>> THEN <<>>
    ELSE (IF Head(items).c >= cutoff THEN <<Head(items)>> ELSE <<>>)
         \o FilterCutoffInclusive(Tail(items), cutoff)

RECURSIVE FilterCutoff(_, _)
FilterCutoff(items, cutoff) ==
    IF items = <<>> THEN <<>>
    ELSE (IF Head(items).c > cutoff THEN <<Head(items)>> ELSE <<>>)
         \o FilterCutoff(Tail(items), cutoff)

\* a (word, count) pair of words_and_counts; the count of an added symbol is None
Counted(items) == [i \in 1..Len(items) |-> [w |-> items[i].w, c |-> Some(items[i].c)]]

\* words_and_counts before the size is restricted
WordsAndCounts(counter, cutoff) == Counted(FilterCutoff(SortedByCount(counter), cutoff))

TooSmall == [ok |-> FALSE, words |-> <<>>]

\* "Restrict the vocabulary size" for one stream
RestrictSize(words, vocabulary_size, add_symbol) ==
    IF vocabulary_size > 0
    THEN IF vocabulary_size < Len(add_symbol) THEN TooSmall
         ELSE [ok |-> TRUE,
               words |-> PySlice(words, None, Some(vocabulary_size - Len(add_symbol)))]
    ELSE [ok |-> TRUE, words |-> words]

BadSymbol == [ok |-> FALSE, symbol |-> <<>>, idx |-> 0]

\* symbol, idx = symbol_and_id.split(":"); idx = int(idx); symbol.strip()
ParseSymbol(symbol_and_id) ==
    LET parts == SplitSep(symbol_and_id, <<":">>)
    IN  IF Len(parts) # 2 THEN BadSymbol
        ELSE IF ParseInt(parts[2]) = <<>> THEN BadSymbol
        ELSE [ok |-> TRUE, symbol |-> Strip(parts[1]), idx |-> ParseInt(parts[2])[1]]

\* the index handed to list.insert for one stream
InsertIndexFromLen(words, idx) == IF idx < 0 THEN Len(words) + idx ELSE idx

InsertIndex(words, idx) == IF idx < 0 THEN Len(words) + 1 + idx ELSE idx

\* words_and_counts.insert(idx, (symbol, None)) for one stream
InsertSymbol(words, symbol, idx) ==
    PyInsert(words, InsertIndex(words, idx), [w |-> symbol, c |-> None])

\* sum(counter.values())
RECURSIVE TotalCount(_)
TotalCount(counter) ==
    IF counter = <<>> THEN 0 ELSE Head(counter).c + TotalCount(Tail(counter))

\* sum(c for w, c in words_and_counts if c is not None)
RECURSIVE InvocabCount(_)
InvocabCount(words) ==
    IF words = <<>> THEN 0
    ELSE (IF Head(words).c = None THEN 0 ELSE Head(words).c[1]) + InvocabCount(Tail(words))

\* fout.write(w + "\n") for each word
WriteWordsTo(fout, words) == fout \o [i \in 1..Len(words) |-> words[i].w]

\* fout.write(" ".join(tokens) + "\n")
WriteRecordUnlessEmpty(fout, tokens) ==
    IF tokens = <<>> THEN fout ELSE Append(fout, Join(tokens, <<" ">>))

WriteRecord(fout, tokens) == Append(fout, Join(tokens, <<" ">>))

-----------------------------------------------------------------------------
(* tokenize(): the run                                                     *)

Blank0 == <<"<blank>", ":", "0">>
UnkLast == <<"<unk>", ":", "-", "1">>
UnkMinus3 == <<"<unk>", ":", "-", "3">>
NoIndex == <<"<blank>">>
Sc2 == <<"<sc>", ":", "2">>

\* the lines an input file is made of
LineSet ==
    { <<>>, <<"a">>, <<"a", "b">>, <<"b", " ", "a">>, <<"b", " ", "a", "b", " ">> }

DefaultArgs ==
    [field |-> None, delimiter |-> None, token_type |-> "char_phone",
     space_symbol |-> "<space>", joint_symbol |-> "@", g2p_type |-> None,
     char_non_linguistic_symbols |-> <<>>,
     phone_non_linguistic_symbols |-> << <<"a", "b">> >>,
     remove_non_linguistic_symbols |-> FALSE,
     write_vocabulary |-> FALSE, cutoff |-> 0,
     char_vocabulary_size |-> 0, phone_vocabulary_size |-> 0,
     add_symbol |-> <<>>, add_nonsplit_symbol |-> <<>>]

\* command lines of the text mode
TextArgs ==
    {[DefaultArgs EXCEPT !.field = f, !.delimiter = d] :
        f \in {None, <<<<"2", "-">>>>, <<<<"1">>>>, <<<<"0">>>>},
        d \in {None, <<<<" ">>>>}}

\* command lines of the vocabulary mode
VocabArgs ==
    {[DefaultArgs EXCEPT !.write_vocabulary = TRUE, !.field = f, !.cutoff = k,
                         !.char_vocabulary_size = cs, !.phone_vocabulary_size = ps,
                         !.add_symbol = a, !.add_nonsplit_symbol = n] :
        f \in {None, <<<<"2", "-">>>>},
        k \in {0, 1},
        cs \in {0, 1, 2, 3},
        ps \in {0, 2},
        a \in {<<>>, <<Blank0, UnkLast>>, <<UnkMinus3, Blank0>>, <<NoIndex>>},
        n \in {<<>>, <<Sc2>>}}

RInit ==
    /\ pc = "start"
    /\ args \in TextArgs \cup VocabArgs
    /\ fin \in SeqUpTo(LineSet, MaxLines)
    /\ slic = None
    /\ tokenizer = NoTokenizer
    /\ nread = 0
    /\ c_counter = <<>> /\ p_counter = <<>>
    /\ c_fout = <<>> /\ p_fout = <<>>
    /\ c_words_and_counts = <<>> /\ p_words_and_counts = <<>>
    /\ inj = 0
    /\ err = ""
    \* the rest of the model is left alone
    /\ f_pc = "idle" /\ f_field = <<>> /\ f_slic = FormatError
    /\ f_sel = <<>>
    /\ s_pc = "idle" /\ s_line = <<>> /\ s_delim = None
    /\ s_field = <<>> /\ s_slic = FormatError /\ s_tokens = <<>>
    /\ s_joined = <<>> /\ s_resplit = <<>>
    /\ t_pc = "idle" /\ t_cfg = <<>> /\ t_tok = NoTokenizer
    /\ t_line = <<>> /\ t_out = NoTokens

\* the tokenizer's construction arguments as tokenize() passes them
TokenizerArgs(a) ==
    [token_type |-> a.token_type, direct |-> FALSE, pre_phonemize |-> FALSE,
     joint_symbol |-> a.joint_symbol, g2p_type |-> a.g2p_type,
     space_symbol |-> a.space_symbol,
     char_non_linguistic_symbols |-> a.char_non_linguistic_symbols,
     phone_non_linguistic_symbols |-> a.phone_non_linguistic_symbols,
     remove_non_linguistic_symbols |-> a.remove_non_linguistic_symbols,
     nonsplit_symbols |-> a.add_nonsplit_symbol]

\* everything before the loop: the files are opened, the tokenizer is built,
\* the counters are created, the field is parsed
Begin ==
    /\ pc = "start"
    /\ tokenizer' = build_tokenizer(TokenizerArgs(args))
    /\ IF ~tokenizer'.ok
       THEN pc' = "error" /\ err' = "ValueError: token_type" /\ slic' = slic
       ELSE IF args.field = None
       THEN pc' = "loop" /\ err' = err /\ slic' = None
       ELSE IF field2slice(args.field[1]).ok
       THEN pc' = "loop" /\ err' = err /\ slic' = <<field2slice(args.field[1])>>
       ELSE pc' = "error" /\ err' = "RuntimeError: Format error: field" /\ slic' = slic
    /\ UNCHANGED <<args, fin, nread, c_counter, p_counter, c_fout, p_fout,
                   c_words_and_counts, p_words_and_counts, inj>>
    /\ UNCHANGED <<fvars, svars, tvars>>

\* the line handed to the cleaner: line.rstrip(), then the columns kept
LineOf(raw) ==
    IF slic = None THEN RStrip(raw) ELSE StripColumns(raw, args.delimiter, slic[1])

\* TextCleaner(None): no cleaner is applied
Cleaner(line) == line

\* one pass of "for line in fin"
ReadLine ==
    /\ pc = "loop"
    /\ nread < Len(fin)
    /\ LET tokens == text2tokens(tokenizer.tok[1], Cleaner(LineOf(fin[nread + 1])))
       IN  IF slic # None /\ args.delimiter = <<<<>>>>
           THEN /\ pc' = "error" /\ err' = "ValueError: empty separator"
                /\ UNCHANGED <<nread, c_counter, p_counter, c_fout, p_fout>>
           ELSE IF ~tokens.ok
           THEN /\ pc' = "error" /\ err' = "ValueError: unpack"
                /\ UNCHANGED <<nread, c_counter, p_counter, c_fout, p_fout>>
           ELSE /\ nread' = nread + 1
                /\ UNCHANGED <<pc, err>>
                /\ IF ~args.write_vocabulary
                   THEN /\ c_fout' = WriteRecord(c_fout, tokens.char)
                        /\ p_fout' = WriteRecord(p_fout, tokens.phone)
                        /\ UNCHANGED <<c_counter, p_counter>>
                   ELSE /\ c_counter' = CountTokens(c_counter, tokens.char)
                        /\ p_counter' = CountTokens(p_counter, tokens.phone)
                        /\ UNCHANGED <<c_fout, p_fout>>
    /\ UNCHANGED <<args, fin, slic, tokenizer, c_words_and_counts,
                   p_words_and_counts, inj>>
    /\ UNCHANGED <<fvars, svars, tvars>>

\* the input is exhausted: "if not write_vocabulary: return"
EndOfInput ==
    /\ pc = "loop"
    /\ nread = Len(fin)
    /\ pc' = IF args.write_vocabulary THEN "sort" ELSE "done"
    /\ UNCHANGED <<args, fin, slic, tokenizer, nread, c_counter, p_counter, c_fout,
                   p_fout, c_words_and_counts, p_words_and_counts, inj, err>>
    /\ UNCHANGED <<fvars, svars, tvars>>

\* "Sort by the number of occurrences in descending order and filter lower
\* frequency words than cutoff value"
SortFilter ==
    /\ pc = "sort"
    /\ c_words_and_counts' = WordsAndCounts(c_counter, args.cutoff)
    /\ p_words_and_counts' = WordsAndCounts(p_counter, args.cutoff)
    /\ pc' = "restrict"
    /\ UNCHANGED <<args, fin, slic, tokenizer, nread, c_counter, p_counter, c_fout,
                   p_fout, inj, err>>
    /\ UNCHANGED <<fvars, svars, tvars>>

\* "Restrict the vocabulary size": the char stream, then the phone stream
Restrict ==
    /\ pc = "restrict"
    /\ LET c == RestrictSize(c_words_and_counts, args.char_vocabulary_size, args.add_symbol)
           p == RestrictSize(p_words_and_counts, args.phone_vocabulary_size, args.add_symbol)
       IN  IF ~c.ok
           THEN /\ pc' = "error" /\ err' = "RuntimeError: char_vocabulary_size is too small"
                /\ UNCHANGED <<c_words_and_counts, p_words_and_counts, inj>>
           ELSE IF ~p.ok
           THEN /\ pc' = "error" /\ err' = "RuntimeError: phone_vocabulary_size is too small"
                /\ c_words_and_counts' = c.words
                /\ UNCHANGED <<p_words_and_counts, inj>>
           ELSE /\ pc' = "inject" /\ err' = err /\ inj' = 1
                /\ c_words_and_counts' = c.words
                /\ p_words_and_counts' = p.words
    /\ UNCHANGED <<args, fin, slic, tokenizer, nread, c_counter, p_counter, c_fout, p_fout>>
    /\ UNCHANGED <<fvars, svars, tvars>>

\* add_symbol + add_nonsplit_symbol
Injections(a) == a.add_symbol \o a.add_nonsplit_symbol

\* one pass of "for symbol_and_id in add_symbol + add_nonsplit_symbol"
Inject ==
    /\ pc = "inject"
    /\ inj <= Len(Injections(args))
    /\ LET s == ParseSymbol(Injections(args)[inj])
       IN  IF ~s.ok
           THEN /\ pc' = "error" /\ err' = "RuntimeError: Format error: symbol"
                /\ UNCHANGED <<c_words_and_counts, p_words_and_counts, inj>>
           ELSE /\ c_words_and_counts' = InsertSymbol(c_words_and_counts, s.symbol, s.idx)
                /\ p_words_and_counts' = InsertSymbol(p_words_and_counts, s.symbol, s.idx)
                /\ inj' = inj + 1
                /\ UNCHANGED <<pc, err>>
    /\ UNCHANGED <<args, fin, slic, tokenizer, nread, c_counter, p_counter, c_fout, p_fout>>
    /\ UNCHANGED <<fvars, svars, tvars>>

\* "Write words"
WriteWords ==
    /\ pc = "inject"
    /\ inj > Len(Injections(args))
    /\ c_fout' = WriteWordsTo(c_fout, c_words_and_counts)
    /\ p_fout' = WriteWordsTo(p_fout, p_words_and_counts)
    /\ pc' = "log"
    /\ UNCHANGED <<args, fin, slic, tokenizer, nread, c_counter, p_counter,
                   c_words_and_counts, p_words_and_counts, inj, err>>
    /\ UNCHANGED <<fvars, svars, tvars>>

\* "Logging (char)", "Logging (phone)": each message divides by the total
\* count of its stream
LogOOV ==
    /\ pc = "log"
    /\ IF TotalCount(c_counter) = 0
       THEN pc' = "error" /\ err' = "ZeroDivisionError: char"
       ELSE IF TotalCount(p_counter) = 0
       THEN pc' = "error" /\ err' = "ZeroDivisionError: phone"
       ELSE pc' = "done" /\ err' = err
    /\ UNCHANGED <<args, fin, slic, tokenizer, nread, c_counter, p_counter, c_fout,
                   p_fout, c_words_and_counts, p_words_and_counts, inj>>
    /\ UNCHANGED <<fvars, svars, tvars>>

-----------------------------------------------------------------------------
(* Specifications *)

\* field2slice on its own
FNext == FParse \/ FApply
SpecField == FInit /\ [][FNext]_vars

\* the column stripping of one line
SNext == SParse \/ SStrip \/ SResplit
SpecStrip == SInit /\ [][SNext]_vars

\* the tokenizer on its own
TNext == TConstruct \/ TBuild \/ TText2Tokens
SpecTok == TInit /\ [][TNext]_vars

\* one run of tokenize()
Init == RInit
Next ==
    \/ Begin \/ ReadLine \/ EndOfInput \/ SortFilter
    \/ Restrict \/ Inject \/ WriteWords \/ LogOOV
Spec == Init /\ [][Next]_vars

-----------------------------------------------------------------------------
(* Properties of field2slice (SpecField)                                   *)

Range(s) == {s[i] : i \in DOMAIN s}

\* the decimal string of a one-digit number
DigitStr(n) == <<CHOOSE d \in Digits : DigitVal(d) = n>>

\* C1: for N >= 1 and M >= 1, "N-" gives (N-1, None), "N-M" gives (N-1, M),
\* "-M" gives (None, M) and "N" gives (N-1, N); slicing a row of columns with
\* the result of "N" selects exactly column N.
C1_DocumentedRanges ==
    f_pc # "start" =>
        \A n \in 1..2, m \in 1..2 :
            /\ f_field = DigitStr(n) \o <<"-">> => f_slic = Slice(Some(n - 1), None)
            /\ f_field = DigitStr(n) \o <<"-">> \o DigitStr(m)
                  => f_slic = Slice(Some(n - 1), Some(m))
            /\ f_field = <<"-">> \o DigitStr(m) => f_slic = Slice(None, Some(m))
            /\ f_field = DigitStr(n)
                  => /\ f_slic = Slice(Some(n - 1), Some(n))
                     /\ f_pc = "sliced" => f_sel = <<Columns[n]>>

\* the number of "-" in a field string
DashCount(s) == Cardinality({i \in 1..Len(s) : s[i] = "-"})

\* C2: a field string whose N is 0, or that holds a token that is no base-10
\* integer, or that holds more than one "-", is rejected with a format error.
C2_MalformedFieldRejected ==
    (/\ f_pc # "start"
     /\ \/ f_field = <<"0">>
        \/ StartsWith(f_field, <<"0", "-">>)
        \/ "a" \in Range(f_field)
        \/ DashCount(f_field) > 1)
    => f_pc = "error"

-----------------------------------------------------------------------------
(* Properties of the column stripping (SpecStrip)                          *)

-----------------------------------------------------------------------------
(* Properties of the tokenizer (SpecTok)                                   *)

\* C3: in pre-phonemized mode the line is split at the first occurrence of
\* the configured joint symbol; the char stream is the character
\* tokenization of the text part, the phone stream the blank-split of the
\* phone part with no G2P; a line without the joint symbol fails.
C3_PrePhonemizedSplit ==
    (t_pc \in {"done", "error"} /\ t_cfg.direct /\ t_cfg.pre_phonemize) =>
        LET i == Find(t_line, <<t_cfg.joint_symbol>>)
        IN  IF i >= 0
            THEN /\ t_pc = "done"
                 /\ t_out.char = CharText2Tokens(t_tok.tok[1].char_tokenizer, Take(t_line, i))
                 /\ t_out.phone = SplitWs(Drop(t_line, i + 1))
            ELSE t_pc = "error"

\* C4: with pre_phonemize not set the char stream is the character
\* tokenization of the line and the phone stream is the blank-split of the
\* G2P result of the same line.
C4_OnTheFlyG2P ==
    (t_pc = "done" /\ ~t_cfg.pre_phonemize) =>
        /\ t_out.char = CharText2Tokens(t_tok.tok[1].char_tokenizer, t_line)
        /\ t_out.phone = SplitWs(grapheme_to_phoneme(t_line))

-----------------------------------------------------------------------------
(* Properties of the run (Spec)                                            *)

\* C5: with max_size > 0 a run that succeeds emits at most max_size
\* vocabulary entries for that stream.
C5_SizeCap ==
    (pc = "done" /\ args.write_vocabulary) =>
        /\ args.char_vocabulary_size > 0 => Len(c_fout) <= args.char_vocabulary_size
        /\ args.phone_vocabulary_size > 0 => Len(p_fout) <= args.phone_vocabulary_size

\* new is old with the symbol put in at 0-based position pos
InsertedAt(old, new, pos, symbol) ==
    /\ pos \in 0..Len(old)
    /\ Len(new) = Len(old) + 1
    /\ new[pos + 1] = [w |-> symbol, c |-> None]
    /\ \A i \in 1..Len(old) : new[IF i <= pos THEN i ELSE i + 1] = old[i]

Min(a, b) == IF a < b THEN a ELSE b
Max(a, b) == IF a > b THEN a ELSE b

\* the position C6 states for index k on a list of n entries
StatedPosition(n, k) == IF k >= 0 THEN Min(k, n) ELSE n + 1 + k

\* the position of the amended C6
AmendedPosition(n, k) ==
    IF k >= 0 THEN Min(k, n)
    ELSE IF n + 1 + k >= 0 THEN n + 1 + k
    ELSE Max(0, 2 * n + 1 + k)

\* one entry of the injection list has been spliced into both streams
InjectStep == pc = "inject" /\ inj' = inj + 1

\* C6 as stated: the entries are processed in the given order, each on the
\* list left by the previous ones; index i >= 0 inserts before position i
\* (appending beyond the end), index k < 0 inserts at position len + 1 + k.
C6_StatedPositions ==
    [][InjectStep =>
         LET e == ParseSymbol(Injections(args)[inj])
         IN  /\ InsertedAt(c_words_and_counts, c_words_and_counts',
                           StatedPosition(Len(c_words_and_counts), e.idx), e.symbol)
             /\ InsertedAt(p_words_and_counts, p_words_and_counts',
                           StatedPosition(Len(p_words_and_counts), e.idx), e.symbol)]_vars

\* the entries of a list that were counted
IsCounted(e) == e.c # None

\* C6 as amended: as stated, except that a negative index k with
\* len + 1 + k < 0 inserts at position max(0, 2 * len + 1 + k); and with the
\* injections ["<blank>:0", "<unk>:-1"] the final list is "<blank>", the
\* counted entries, "<unk>", for both streams.
C6_InjectionOrder ==
    /\ [][InjectStep =>
            LET e == ParseSymbol(Injections(args)[inj])
            IN  /\ InsertedAt(c_words_and_counts, c_words_and_counts',
                              AmendedPosition(Len(c_words_and_counts), e.idx), e.symbol)
                /\ InsertedAt(p_words_and_counts, p_words_and_counts',
                              AmendedPosition(Len(p_words_and_counts), e.idx), e.symbol)]_vars
    /\ []((pc \in {"log", "done"} /\ Injections(args) = <<Blank0, UnkLast>>) =>
            \A words \in {c_words_and_counts, p_words_and_counts} :
                words = <<[w |-> <<"<blank>">>, c |-> None]>>
                          \o SelectSeq(words, IsCounted)
                          \o <<[w |-> <<"<unk>">>, c |-> None]>>)

\* C6: three counted entries, then "<blank>:0" and "<unk>:-1"
C6_Witness ==
    /\ pc = "done" /\ Injections(args) = <<Blank0, UnkLast>>
    /\ Len(c_words_and_counts) = 5
    /\ c_words_and_counts[1].w = <<"<blank>">> /\ c_words_and_counts[5].w = <<"<unk>">>
    /\ \A i \in 2..4 : IsCounted(c_words_and_counts[i])
    /\ p_words_and_counts[Len(p_words_and_counts)].w = <<"<unk>">>

\* the tokens of one stream of the lines read so far, in input order
RECURSIVE StreamOf(_, _)
StreamOf(stream, n) ==
    IF n = 0 THEN <<>>
    ELSE StreamOf(stream, n - 1)
         \o (IF stream = "char"
             THEN text2tokens(tokenizer.tok[1], Cleaner(LineOf(fin[n]))).char
             ELSE text2tokens(tokenizer.tok[1], Cleaner(LineOf(fin[n]))).phone)

Occurrences(stream, t) == Cardinality({i \in 1..Len(stream) : stream[i] = t})

FirstSeen(stream, t) ==
    CHOOSE i \in 1..Len(stream) : stream[i] = t /\ \A j \in 1..(i - 1) : stream[j] # t

\* words is the ranked vocabulary of the token stream
RankedOf(stream, words, cutoff) ==
    /\ \A t \in Range(stream) :
           Occurrences(stream, t) > cutoff <=> \E i \in 1..Len(words) : words[i].w = t
    /\ \A i \in 1..Len(words) :
           /\ words[i].w \in Range(stream)
           /\ words[i].c = Some(Occurrences(stream, words[i].w))
    /\ \A i, j \in 1..Len(words) :
           i < j =>
              /\ words[i].w # words[j].w
              /\ \/ Occurrences(stream, words[i].w) > Occurrences(stream, words[j].w)
                 \/ /\ Occurrences(stream, words[i].w) = Occurrences(stream, words[j].w)
                    /\ FirstSeen(stream, words[i].w) < FirstSeen(stream, words[j].w)

\* C7: before the size is restricted, the counted list of each stream holds
\* exactly the tokens whose count is strictly greater than cutoff, each once,
\* in non-increasing order of count, equal counts in first-seen order.
C7_RankedByCount ==
    pc = "restrict" =>
        /\ RankedOf(StreamOf("char", nread), c_words_and_counts, args.cutoff)
        /\ RankedOf(StreamOf("phone", nread), p_words_and_counts, args.cutoff)

\* C7: cutoff 1, a token seen exactly once is left out and two tokens of
\* equal count are kept
C7_Witness ==
    /\ pc = "restrict" /\ args.cutoff = 1
    /\ \E t \in Range(StreamOf("char", nread)) : Occurrences(StreamOf("char", nread), t) = 1
    /\ \E t \in Range(StreamOf("char", nread)) : Occurrences(StreamOf("char", nread), t) = 2
    /\ Len(c_words_and_counts) >= 2
    /\ c_words_and_counts[1].c = c_words_and_counts[2].c

WellFormedArgs(a) ==
    /\ \A i \in 1..Len(Injections(a)) : ParseSymbol(Injections(a)[i]).ok
    /\ a.char_vocabulary_size = 0 \/ a.char_vocabulary_size >= Len(Injections(a))
    /\ a.phone_vocabulary_size = 0 \/ a.phone_vocabulary_size >= Len(Injections(a))

\* C10: in vocabulary mode with well-formed arguments the run raises no
\* error, whatever the input.
C10_VocabularyRunCompletes ==
    (args.write_vocabulary /\ WellFormedArgs(args)) => pc # "error"

=============================================================================
